---- MODULE Spec2Model ----
(***************************************************************************)
(* The request-admission pipeline of src/server.js: POST /chat validates   *)
(* the body, verifies the receipt, matches an entitlement, enforces the    *)
(* quota, forwards the prompt and accounts the usage.                      *)
(*                                                                         *)
(* The handler is an async function on Node's single-threaded event loop:  *)
(* the code between two awaits runs to completion before any other         *)
(* callback runs.  The loop is modelled by the variable event: an          *)
(* environment action puts one I/O completion into event (a request        *)
(* arrives, a promise settles) and the handler action of that request      *)
(* consumes it, running the code up to its next await or its response.     *)
(* While an event is being dispatched nothing else runs.                   *)
(*                                                                         *)
(* express.json() is taken to leave req.body an object; a field the body   *)
(* lacks reads as undefined.  The text of the receipt and of the prompt    *)
(* is not kept after validation: nothing later in the handler branches on  *)
(* it.                                                                     *)
(*                                                                         *)
(* GET / of src/server.js is the health check.  src/unnamed/part_000 is an *)
(* earlier server of the repository whose POST /chat forwards the message  *)
(* to the completion service; it is modelled as a specification of its own *)
(* (SpecLegacy) over the same per-request variables.                       *)
(***************************************************************************)
EXTENDS Integers, Sequences, FiniteSets, TLC

\* ------------------------------------------------------------------ bounds
\* Concurrent request handlers (connections); each serves one request.
NReq == 2
\* Longest string a request field or an upstream reply carries.
MaxStrLen == 2
\* Longest latest_receipt_info list the verification service returns.
MaxEntries == 2
\* Last value Date.now() returns (the first is 9).
MaxNow == 10

Req == 1 .. NReq

\* ------------------------------------------------------------- JS values
\* A JS value is [type, val]; val is meaningful for strings only.
Chars == {" ", "a"}

RECURSIVE SeqsUpTo(_, _)
SeqsUpTo(S, n) ==
    IF n = 0 THEN {<<>>}
    ELSE LET shorter == SeqsUpTo(S, n - 1)
         IN  shorter \cup {Append(s, c) : s \in shorter, c \in S}

Str(s) == [type |-> "string", val |-> s]
Undefined == [type |-> "undefined", val |-> <<>>]
Number == [type |-> "number", val |-> <<>>]

\* The values the content field of the upstream reply takes: absent, no
\* string, or a string of at most n characters.
TextValues(n) == {Undefined, Number} \cup {Str(s) : s \in SeqsUpTo(Chars, n)}

\* The values a text field of the request body takes: absent (which typeof
\* tells from a string as it does any other non-string) or a string.
FieldValues(n) == {Undefined} \cup {Str(s) : s \in SeqsUpTo(Chars, n)}

\* String.prototype.trim: strip the white space at both ends.
RECURSIVE TrimStart(_)
TrimStart(s) ==
    IF s # <<>> /\ Head(s) = " " THEN TrimStart(Tail(s)) ELSE s

RECURSIVE TrimEnd(_)
TrimEnd(s) ==
    IF s # <<>> /\ s[Len(s)] = " " THEN TrimEnd(SubSeq(s, 1, Len(s) - 1)) ELSE s

Trim(s) == TrimEnd(TrimStart(s))

\* parseInt of a string of decimal digits (given as the sequence of digits).
RECURSIVE ParseInt(_)
ParseInt(ds) ==
    IF ds = <<>> THEN 0
    ELSE 10 * ParseInt(SubSeq(ds, 1, Len(ds) - 1)) + ds[Len(ds)]

\* ------------------------------------------------------- request validation
SupportedModels == {"gpt-3.5-turbo", "gpt-4"}

\* The model field: a supported id, an unsupported string, or no string at all.
ModelValues ==
    {[type |-> "string", val |-> m] :
        m \in SupportedModels \cup {"GPT-4", ""}}
    \cup {[type |-> "undefined", val |-> ""]}

Bodies(n) == [receipt : FieldValues(n), prompt : FieldValues(n), model : ModelValues]

\* A receipt check that forgets the trim.
BadReceipt_NoTrim(v) == v.type # "string" \/ v.val = <<>>

\* typeof receipt !== "string" || receipt.trim() === ""
BadReceipt(v) == v.type # "string" \/ Trim(v.val) = <<>>

\* typeof prompt !== "string" || prompt.trim() === ""
BadPrompt(v) == v.type # "string" \/ Trim(v.val) = <<>>

\* !["gpt-3.5-turbo", "gpt-4"].includes(model)
BadModel(v) == ~(v.type = "string" /\ v.val \in SupportedModels)

\* ------------------------------------------------------ receipt verification
Ids == {"T1", "T2"}
Products == {"com.omegaai.chat3", "com.omegaai.chat4"}

\* The values Date.now() returns.
Clock == 9 .. MaxNow

\* expires_date_ms and purchase_date_ms arrive as strings of digits.
ExpiresValues == {<<9>>, <<1, 0>>}
PurchaseValues == {<<2>>, <<1, 0>>}

\* One element of latest_receipt_info.
Entries ==
    [product_id : Products, original_transaction_id : Ids,
     expires_date_ms : ExpiresValues, purchase_date_ms : PurchaseValues]

\* What awaiting verifyReceipt(receipt, validationOptions) yields: the promise
\* rejects ("throw"), or resolves with no object ("null"), or with an object
\* whose latest_receipt_info is absent, is no array, or is an array of at most
\* n entries.
VerifyOutcomes(n) ==
    {[result |-> "throw", lri |-> "absent", entries |-> <<>>],
     [result |-> "null", lri |-> "absent", entries |-> <<>>],
     [result |-> "object", lri |-> "absent", entries |-> <<>>],
     [result |-> "object", lri |-> "notArray", entries |-> <<>>]}
    \cup {[result |-> "object", lri |-> "array", entries |-> es] :
            es \in SeqsUpTo(Entries, n)}

\* A verifier call with no try/catch of its own.
VerifyCaught_Never(o) == FALSE

\* The try/catch around the await catches the rejection of verifyReceipt.
VerifyCaught(o) == o.result = "throw"

\* appleResponse.latest_receipt_info and inApp.sort(...) raise a TypeError when
\* appleResponse is null/undefined or the field is a truthy non-array; an
\* exception the inner catch did not take also goes on to the outer catch.
VerifyRaises(o) ==
    \/ o.result = "throw"
    \/ o.result = "null"
    \/ (o.result = "object" /\ o.lri = "notArray")

\* appleResponse.latest_receipt_info || []
InApp(o) == IF o.lri = "array" THEN o.entries ELSE <<>>

\* -------------------------------------------------------- entitlement matching
\* model === "gpt-4" ? "com.omegaai.chat4" : "com.omegaai.chat3"
ProductID(m) == IF m = "gpt-4" THEN "com.omegaai.chat4" ELSE "com.omegaai.chat3"

\* A comparator that sorts ascending.
Comparator_Ascending(a, b) ==
    ParseInt(a.purchase_date_ms) - ParseInt(b.purchase_date_ms)

\* (a, b) => parseInt(b.purchase_date_ms) - parseInt(a.purchase_date_ms)
Comparator(a, b) == ParseInt(b.purchase_date_ms) - ParseInt(a.purchase_date_ms)

\* Array.prototype.sort is stable: an element goes before the first element
\* the comparator puts it strictly before, after its equals.
RECURSIVE InsertSorted(_, _)
InsertSorted(e, s) ==
    IF s = <<>> THEN <<e>>
    ELSE IF Comparator(e, Head(s)) < 0 THEN <<e>> \o s
    ELSE <<Head(s)>> \o InsertSorted(e, Tail(s))

RECURSIVE SortEntries(_)
SortEntries(s) ==
    IF s = <<>> THEN <<>>
    ELSE InsertSorted(s[Len(s)], SortEntries(SubSeq(s, 1, Len(s) - 1)))

\* An expiry test that lets an entry expiring right now pass.
IsValid_AtNow(entry, productID, nowMs) ==
    entry.product_id = productID /\ ParseInt(entry.expires_date_ms) >= nowMs

\* entry.product_id === productID && parseInt(entry.expires_date_ms) > nowMs
IsValid(entry, productID, nowMs) ==
    entry.product_id = productID /\ ParseInt(entry.expires_date_ms) > nowMs

\* A loop that stops at the first entry of the product, valid or not.
RECURSIVE FindValid_LatestDecides(_, _, _)
FindValid_LatestDecides(s, productID, nowMs) ==
    IF s = <<>> THEN <<>>
    ELSE IF Head(s).product_id = productID
         THEN IF IsValid(Head(s), productID, nowMs) THEN <<Head(s)>> ELSE <<>>
         ELSE FindValid_LatestDecides(Tail(s), productID, nowMs)

\* The for loop: the first valid entry of the sorted list; <<>> stands for null.
RECURSIVE FindValid(_, _, _)
FindValid(s, productID, nowMs) ==
    IF s = <<>> THEN <<>>
    ELSE IF IsValid(Head(s), productID, nowMs) THEN <<Head(s)>>
    ELSE FindValid(Tail(s), productID, nowMs)

ValidTransaction(o, m, nowMs) == FindValid(SortEntries(InApp(o)), ProductID(m), nowMs)

\* ----------------------------------------------------------------- quota
\* usageTracker is a Map: a function whose domain is the set of keys it has.
NoUsage == [id \in {} |-> [m \in SupportedModels |-> 0]]

\* A lazy creation that starts a new record at one.
GetOrCreate_StartsAtOne(store, id) ==
    IF id \in DOMAIN store THEN store
    ELSE [k \in DOMAIN store \cup {id} |->
            IF k = id THEN [m \in SupportedModels |-> 1] ELSE store[k]]

\* A creation that does not look whether the subscriber has a record.
GetOrCreate_Resets(store, id) ==
    [k \in DOMAIN store \cup {id} |->
        IF k = id THEN [m \in SupportedModels |-> 0] ELSE store[k]]

\* if (!usageTracker.has(id)) usageTracker.set(id, {"gpt-3.5-turbo": 0, "gpt-4": 0})
GetOrCreate(store, id) ==
    IF id \in DOMAIN store THEN store
    ELSE [k \in DOMAIN store \cup {id} |->
            IF k = id THEN [m \in SupportedModels |-> 0] ELSE store[k]]

quotas == [m \in SupportedModels |-> IF m = "gpt-4" THEN 800 ELSE 5000]

\* A quota check that is off by one.
QuotaExceeded_Strict(store, id, m) == store[id][m] > quotas[m]

\* A quota check that refuses nobody.
QuotaExceeded_Never(store, id, m) == FALSE

\* userUsage[model] >= quotas[model]
QuotaExceeded(store, id, m) == store[id][m] >= quotas[m]

\* An increment that counts a call twice.
Increment_Twice(store, id, m) == [store EXCEPT ![id][m] = @ + 2]

\* An increment that counts the call under both models of the subscriber.
Increment_Both(store, id, m) ==
    [store EXCEPT ![id] = [k \in SupportedModels |-> @[k] + 1]]

\* An increment that is lost.
Increment_None(store, id, m) == store

\* An increment that looks at the ceiling again and stops there.
Increment_Capped(store, id, m) ==
    IF store[id][m] >= quotas[m] THEN store ELSE [store EXCEPT ![id][m] = @ + 1]

\* usageTracker.get(originalTransactionId)[model] += 1
Increment(store, id, m) == [store EXCEPT ![id][m] = @ + 1]

\* ------------------------------------------------------------ completion
\* What awaiting fetch(...) yields: a rejection (transport error) or a response
\* whose ok flag is set or not.
FetchOutcomes == {"reject", "ok", "notOk"}

\* What awaiting openaiResponse.text() yields.
TextOutcomes == {"resolve", "reject"}

\* What awaiting openaiResponse.json() yields: a rejection (no JSON), the value
\* null, or a body whose choices?.[0]?.message?.content is the given value (a
\* string of at most n characters).
JsonOutcomes(n) ==
    {[result |-> "reject", content |-> Undefined],
     [result |-> "null", content |-> Undefined]}
    \cup {[result |-> "resolve", content |-> c] : c \in TextValues(n)}

\* The await raises on a rejection; openaiJson.choices raises a TypeError on
\* null; content?.trim() raises one when content is neither nullish nor a string.
JsonRaises(o) == o.result # "resolve" \/ o.content.type = "number"

\* openaiJson.choices?.[0]?.message?.content?.trim(); <<>> also stands for undefined.
ReplyText(c) == IF c.type = "string" THEN Trim(c.val) ELSE <<>>

\* A reply that is never checked.
Falsy_Never(t) == FALSE

\* !replyText: undefined and the empty string are falsy.
Falsy(t) == t = <<>>

\* ------------------------------------------------------------------ state
VARIABLES
    usageTracker,           \* the process-wide Map: id -> model -> count
    event,                  \* the I/O completion the event loop is dispatching
    pc,                     \* per request: where its handler is suspended
    model,                  \* per request: the validated model
    originalTransactionId,  \* per request: the key of its Usage Record
    res,                    \* per request: the response sent
    verifierCalls,          \* per request: calls of verifyReceipt made
    completionCalls,        \* per request: calls of fetch made
    created,                \* per request: it added a record to usageTracker
    incs,                   \* per request: the increments it made
    answered,               \* per subscriber and model: the 200 answers sent
    peak                    \* per subscriber and model: the most requests that
                            \* were at once between quota check and increment

vars ==
    <<usageTracker, event, pc, model, originalTransactionId, res,
      verifierCalls, completionCalls, created, incs, answered, peak>>

NoEvent == [kind |-> "none", req |-> 0, data |-> <<>>]
NoRes == [status |-> 0, error |-> "", reply |-> <<>>]

\* The stores a process can hold when the requests under study start: the
\* empty Map of a fresh process, or the record a subscriber has after a run of
\* successful requests, handled one after the other, that took both counts to
\* their ceilings or to one below (answered and peak start as that run left them).
InitStores ==
    {NoUsage} \cup
    {[id \in {"T1"} |-> [m \in SupportedModels |-> quotas[m] - d]] : d \in {0, 1}}

Init ==
    /\ usageTracker \in InitStores
    /\ event = NoEvent
    /\ pc = [r \in Req |-> "idle"]
    /\ model = [r \in Req |-> ""]
    /\ originalTransactionId = [r \in Req |-> ""]
    /\ res = [r \in Req |-> NoRes]
    /\ verifierCalls = [r \in Req |-> 0]
    /\ completionCalls = [r \in Req |-> 0]
    /\ created = [r \in Req |-> FALSE]
    /\ incs = [r \in Req |-> 0]
    /\ answered = [id \in Ids |-> [m \in SupportedModels |->
                      IF id \in DOMAIN usageTracker THEN usageTracker[id][m] ELSE 0]]
    /\ peak = [id \in Ids |-> [m \in SupportedModels |->
                  IF id \in DOMAIN usageTracker /\ usageTracker[id][m] > 0
                  THEN 1 ELSE 0]]

\* The sum of all counts of a store.
RECURSIVE SumCounts(_, _)
SumCounts(store, keys) ==
    IF keys = {} THEN 0
    ELSE LET k == CHOOSE x \in keys : TRUE
         IN  store[k]["gpt-3.5-turbo"] + store[k]["gpt-4"]
             + SumCounts(store, keys \ {k})

\* Request r's handler ran a piece of code that took the store from old to new.
Effects(r, old, new) ==
    /\ usageTracker' = new
    /\ created' = [created EXCEPT ![r] = @ \/ DOMAIN new # DOMAIN old]
    /\ incs' = [incs EXCEPT ![r] =
                  @ + SumCounts(new, DOMAIN old) - SumCounts(old, DOMAIN old)]

\* Request r is between its quota check and its increment, for subscriber id
\* and model m.
InFlight(r, id, m) ==
    /\ pc[r] \in {"awaitFetch", "awaitText", "awaitJson"}
    /\ originalTransactionId[r] = id
    /\ model[r] = m

\* return res.status(status).json(...): the handler returns and its locals die.
\* A 200 of a request that holds a subscriber id is noted in answered.
Respond(r, status, error, reply) ==
    /\ res' = [res EXCEPT ![r] = [status |-> status, error |-> error, reply |-> reply]]
    /\ pc' = [pc EXCEPT ![r] = "done"]
    /\ model' = [model EXCEPT ![r] = ""]
    /\ originalTransactionId' = [originalTransactionId EXCEPT ![r] = ""]
    /\ event' = NoEvent
    /\ answered' = IF status = 200 /\ originalTransactionId[r] \in Ids
                   THEN [answered EXCEPT ![originalTransactionId[r]][model[r]] = @ + 1]
                   ELSE answered
    /\ peak' = peak

\* The handler suspends at an await, holding the locals m and id; once it holds
\* an id it has passed the quota check, and peak notes how many requests of the
\* pair are then between check and increment.
Suspend(r, at, m, id) ==
    /\ pc' = [pc EXCEPT ![r] = at]
    /\ model' = [model EXCEPT ![r] = m]
    /\ originalTransactionId' = [originalTransactionId EXCEPT ![r] = id]
    /\ event' = NoEvent
    /\ res' = res
    /\ answered' = answered
    /\ peak' = IF id \notin Ids THEN peak
               ELSE LET n == Cardinality({q \in Req \ {r} : InFlight(q, id, m)}) + 1
                    IN  [peak EXCEPT ![id][m] = IF n > @ THEN n ELSE @]

\* The outer catch.
InternalError(r) == Respond(r, 500, "Internal server error.", <<>>)

\* ----------------------------------------------------------- environment
\* The event loop picks the next completion: of kind k, with the data d, for r.
Dispatch(r, k, d) ==
    /\ event' = [kind |-> k, req |-> r, data |-> d]
    /\ UNCHANGED <<usageTracker, pc, model, originalTransactionId, res,
                   verifierCalls, completionCalls, created, incs, answered, peak>>

\* A POST /chat request arrives; the strings of its body have at most n characters.
Arrive(r, n) ==
    /\ event.kind = "none" /\ pc[r] = "idle"
    /\ \E body \in Bodies(n) : Dispatch(r, "request", body)

\* The promise of verifyReceipt settles, with a list of at most n entries; nowMs
\* is what Date.now() returns while the handler goes through the list.
VerifierSettles(r, n) ==
    /\ event.kind = "none" /\ pc[r] = "awaitVerify"
    /\ \E o \in VerifyOutcomes(n), t \in Clock :
          Dispatch(r, "verify", [appleResponse |-> o, nowMs |-> t])

\* The promise of fetch settles.
FetchSettles(r) ==
    /\ event.kind = "none" /\ pc[r] = "awaitFetch"
    /\ \E o \in FetchOutcomes : Dispatch(r, "fetch", o)

\* The promise of openaiResponse.text() settles.
TextSettles(r) ==
    /\ event.kind = "none" /\ pc[r] = "awaitText"
    /\ \E o \in TextOutcomes : Dispatch(r, "text", o)

\* The promise of openaiResponse.json() settles, with a text of at most n characters.
JsonSettles(r, n) ==
    /\ event.kind = "none" /\ pc[r] = "awaitJson"
    /\ \E o \in JsonOutcomes(n) : Dispatch(r, "json", o)

\* A GET / request arrives.
HealthArrives ==
    /\ event.kind = "none"
    /\ Dispatch(0, "health", <<>>)

\* --------------------------------------------------------------- handler
\* Lines 142-144: the health check answers and touches nothing.
Health ==
    /\ event.kind = "health"
    /\ event' = NoEvent
    /\ UNCHANGED <<usageTracker, pc, model, originalTransactionId, res,
                   verifierCalls, completionCalls, created, incs, answered, peak>>

\* Lines 33-54: validate the body, then call verifyReceipt and await it.
Validate(r) ==
    /\ event.kind = "request" /\ event.req = r
    /\ UNCHANGED <<usageTracker, completionCalls, created, incs>>
    /\ LET body == event.data IN
        IF BadReceipt(body.receipt) THEN
            /\ Respond(r, 400, "Missing or invalid receipt.", <<>>)
            /\ UNCHANGED verifierCalls
        ELSE IF BadPrompt(body.prompt) THEN
            /\ Respond(r, 400, "Missing or empty prompt.", <<>>)
            /\ UNCHANGED verifierCalls
        ELSE IF BadModel(body.model) THEN
            /\ Respond(r, 400, "Invalid model requested.", <<>>)
            /\ UNCHANGED verifierCalls
        ELSE
            /\ verifierCalls' = [verifierCalls EXCEPT ![r] = @ + 1]
            /\ Suspend(r, "awaitVerify", body.model.val, "")

\* Lines 55-112: the catch of the verifier call, the entitlement match, the
\* quota check, then the call of fetch and its await.
AfterVerify(r) ==
    /\ event.kind = "verify" /\ event.req = r
    /\ UNCHANGED verifierCalls
    /\ LET o == event.data.appleResponse
           found == ValidTransaction(o, model[r], event.data.nowMs)
       IN
        IF VerifyCaught(o) THEN
            /\ Respond(r, 403, "Failed to verify receipt.", <<>>)
            /\ UNCHANGED <<usageTracker, completionCalls, created, incs>>
        ELSE IF VerifyRaises(o) THEN
            /\ InternalError(r)
            /\ UNCHANGED <<usageTracker, completionCalls, created, incs>>
        ELSE IF found = <<>> THEN
            /\ Respond(r, 403, "No active subscription for requested model.", <<>>)
            /\ UNCHANGED <<usageTracker, completionCalls, created, incs>>
        ELSE
            LET id == found[1].original_transaction_id
                store == GetOrCreate(usageTracker, id)
            IN  /\ Effects(r, usageTracker, store)
                /\ IF QuotaExceeded(store, id, model[r]) THEN
                       /\ Respond(r, 403, "Monthly quota exceeded for this model.", <<>>)
                       /\ UNCHANGED completionCalls
                   ELSE
                       /\ completionCalls' = [completionCalls EXCEPT ![r] = @ + 1]
                       /\ Suspend(r, "awaitFetch", model[r], id)

\* Lines 112-120: fetch settled; read the body as text or as JSON.
AfterFetch(r) ==
    /\ event.kind = "fetch" /\ event.req = r
    /\ UNCHANGED <<usageTracker, verifierCalls, completionCalls, created, incs>>
    /\ IF event.data = "reject" THEN InternalError(r)
       ELSE Suspend(r, IF event.data = "ok" THEN "awaitJson" ELSE "awaitText",
                    model[r], originalTransactionId[r])

\* A handler that logs the upstream error and sends no response.
AfterText_Hangs(r) ==
    /\ event.kind = "text" /\ event.req = r
    /\ event' = NoEvent
    /\ UNCHANGED <<usageTracker, pc, model, originalTransactionId, res,
                   verifierCalls, completionCalls, created, incs, answered, peak>>

\* Lines 115-118: the upstream answered with a non-success status.
AfterText(r) ==
    /\ event.kind = "text" /\ event.req = r
    /\ UNCHANGED <<usageTracker, verifierCalls, completionCalls, created, incs>>
    /\ IF event.data = "reject" THEN InternalError(r)
       ELSE Respond(r, 500, "Error communicating with OpenAI.", <<>>)

\* Lines 120-131: parse the reply, count the call, answer.
AfterJson(r) ==
    /\ event.kind = "json" /\ event.req = r
    /\ UNCHANGED <<verifierCalls, completionCalls>>
    /\ LET o == event.data
           replyText == ReplyText(o.content)
       IN
        IF JsonRaises(o) THEN
            /\ InternalError(r)
            /\ UNCHANGED <<usageTracker, created, incs>>
        ELSE IF Falsy(replyText) THEN
            /\ Respond(r, 500, "Malformed response from OpenAI.", <<>>)
            /\ UNCHANGED <<usageTracker, created, incs>>
        ELSE
            /\ Effects(r, usageTracker,
                       Increment(usageTracker, originalTransactionId[r], model[r]))
            /\ Respond(r, 200, "", replyText)

\* What a handler does with the completion dispatched to it.
Handle(r) ==
    \/ Validate(r)
    \/ AfterVerify(r)
    \/ AfterFetch(r)
    \/ AfterText(r)
    \/ AfterJson(r)

\* NReq requests handled concurrently; the environment sends bodies whose
\* strings have at most one character and receipts of at most one entry.
Next ==
    \/ \E r \in Req :
        \/ Arrive(r, 1)
        \/ VerifierSettles(r, 1)
        \/ FetchSettles(r)
        \/ TextSettles(r)
        \/ JsonSettles(r, MaxStrLen)
        \/ Handle(r)
    \/ HealthArrives
    \/ Health

Spec == Init /\ [][Next]_vars

\* The external call request r awaits completes or fails.
Settles(r) ==
    \/ VerifierSettles(r, 1)
    \/ FetchSettles(r)
    \/ TextSettles(r)
    \/ JsonSettles(r, MaxStrLen)

\* Every external call eventually completes or fails, however often other
\* completions are dispatched first (strong fairness: the call of r is pending
\* whenever the loop is idle), and the event loop runs the callback of every
\* completion it dispatches.  No request is required to arrive.
Fairness ==
    /\ \A r \in Req : SF_vars(Settles(r)) /\ WF_vars(Handle(r))
    /\ WF_vars(Health)

SpecFair == Init /\ [][Next]_vars /\ Fairness

\* One request handled alone; the environment sends strings of up to MaxStrLen
\* characters and receipts of up to MaxEntries subscription entries.
NextSingle ==
    \/ Arrive(1, MaxStrLen)
    \/ VerifierSettles(1, MaxEntries)
    \/ FetchSettles(1)
    \/ TextSettles(1)
    \/ JsonSettles(1, MaxStrLen)
    \/ Handle(1)

SpecSingle == Init /\ [][NextSingle]_vars

\* ------------------------------------------------------- the legacy proxy
\* src/unnamed/part_000 is an earlier server of the repository with a POST /chat
\* of its own: it forwards req.body.message to the completion service.  Its
\* requests use the per-request variables of the handler above; it never reads
\* or writes usageTracker.

\* What awaiting axios.post(...) yields: a rejection (a transport error or a
\* non-2xx status), a body on which response.data.choices[0].message.content
\* raises a TypeError, or a body whose content is the given value.
PostOutcomes(n) ==
    {[result |-> "reject", content |-> Undefined],
     [result |-> "throws", content |-> Undefined]}
    \cup {[result |-> "resolve", content |-> c] : c \in TextValues(n)}

\* A POST /chat request arrives at the legacy server.
LegacyArrive(r, n) ==
    /\ event.kind = "none" /\ pc[r] = "idle"
    /\ \E userMessage \in FieldValues(n) : Dispatch(r, "legacyRequest", userMessage)

\* The promise of axios.post settles.
PostSettles(r, n) ==
    /\ event.kind = "none" /\ pc[r] = "awaitPost"
    /\ \E o \in PostOutcomes(n) : Dispatch(r, "post", o)

\* part_000 lines 20-36: read the message, call axios.post and await it.
LegacyChat(r) ==
    /\ event.kind = "legacyRequest" /\ event.req = r
    /\ completionCalls' = [completionCalls EXCEPT ![r] = @ + 1]
    /\ Suspend(r, "awaitPost", "", "")
    /\ UNCHANGED <<usageTracker, verifierCalls, created, incs>>

\* part_000 lines 38-43: answer with the content as it came, or the catch.
LegacyAfterPost(r) ==
    /\ event.kind = "post" /\ event.req = r
    /\ UNCHANGED <<usageTracker, verifierCalls, completionCalls, created, incs>>
    /\ IF event.data.result = "resolve"
       THEN Respond(r, 200, "", event.data.content.val)
       ELSE Respond(r, 500, "Error communicating with OpenAI", <<>>)

\* NReq requests handled concurrently by the legacy server.
NextLegacy ==
    \E r \in Req :
        \/ LegacyArrive(r, 1)
        \/ PostSettles(r, MaxStrLen)
        \/ LegacyChat(r)
        \/ LegacyAfterPost(r)

SpecLegacy == Init /\ [][NextLegacy]_vars

\* ================================================================== claims
\* A string with at least one character that is no white space.
NonBlank(v) == v.type = "string" /\ \E i \in 1 .. Len(v.val) : v.val[i] # " "

\* The request sent no call out and left no trace in the usage store.
Untouched(r) ==
    /\ verifierCalls'[r] = 0
    /\ completionCalls'[r] = 0
    /\ ~created'[r]
    /\ incs'[r] = 0

\* The handler of r is about to run on a completion of kind k.
Handling(r, k) == event.kind = k /\ event.req = r

\* C1: a POST /chat request whose receipt or prompt is no string with a
\* non-blank character, or whose model is neither gpt-3.5-turbo nor gpt-4, is
\* answered 400; a request answered 400 has called neither the receipt verifier
\* nor the completion service, and the step that answers it leaves the usage
\* store as it was.
C1_InvalidRequestRejected ==
    [][\A r \in Req :
        /\ ( /\ Handling(r, "request")
             /\ \/ ~NonBlank(event.data.receipt)
                \/ ~NonBlank(event.data.prompt)
                \/ ~( /\ event.data.model.type = "string"
                      /\ event.data.model.val \in {"gpt-3.5-turbo", "gpt-4"} ) )
           => (res'[r].status = 400 /\ pc'[r] = "done" /\ usageTracker' = usageTracker)
        /\ res'[r].status = 400 => Untouched(r)
      ]_vars

\* C1 witness: a request with an unsupported model was answered 400.
C1_Witness ==
    /\ res[1].status = 400
    /\ res[1].error = "Invalid model requested."
    /\ verifierCalls[1] = 0

\* C2: when the call of the receipt verifier fails (its promise rejects), the
\* request is answered 403, the completion service has not been called for it,
\* and it has changed no usage count.
C2_VerifierFailureRejected ==
    [][\A r \in Req :
        (Handling(r, "verify") /\ event.data.appleResponse.result = "throw")
        => /\ res'[r].status = 403
           /\ pc'[r] = "done"
           /\ completionCalls'[r] = 0
           /\ ~created'[r] /\ incs'[r] = 0
           /\ usageTracker' = usageTracker
      ]_vars

\* C2 witness: a request was refused because its receipt could not be verified.
C2_Witness ==
    \E r \in Req :
        /\ res[r].status = 403
        /\ res[r].error = "Failed to verify receipt."
        /\ verifierCalls[r] = 1 /\ completionCalls[r] = 0

\* C3: when the verifier returns without raising but with a malformed payload
\* (no result object, or a latest_receipt_info that is no list), the request is
\* answered 403 as a failed receipt verification, not 500, and the completion
\* service is not called.
C3_MalformedPayloadRejected ==
    [][\A r \in Req :
        ( /\ Handling(r, "verify")
          /\ \/ event.data.appleResponse.result = "null"
             \/ /\ event.data.appleResponse.result = "object"
                /\ event.data.appleResponse.lri = "notArray" )
        => /\ res'[r].status = 403
           /\ res'[r].error = "Failed to verify receipt."
           /\ completionCalls'[r] = 0
      ]_vars

\* The number a string of digits denotes.
RECURSIVE Ms(_, _)
Ms(ds, acc) == IF ds = <<>> THEN acc ELSE Ms(Tail(ds), 10 * acc + Head(ds))

\* The product a model is sold as.
ProductOf(m) ==
    CASE m = "gpt-4" -> "com.omegaai.chat4"
      [] m = "gpt-3.5-turbo" -> "com.omegaai.chat3"

\* The monthly ceiling of a model.
CeilingOf(m) ==
    CASE m = "gpt-4" -> 800
      [] m = "gpt-3.5-turbo" -> 5000

\* The entries of the list es that entitle to model m at time t: their product
\* is m's and they expire strictly after t.
Entitling(es, m, t) ==
    {i \in 1 .. Len(es) :
        /\ es[i].product_id = ProductOf(m)
        /\ Ms(es[i].expires_date_ms, 0) > t}

\* The verifier returned a well-formed payload to r: an object whose
\* latest_receipt_info is a list, or is absent (no entries).
Verified(r) ==
    /\ Handling(r, "verify")
    /\ event.data.appleResponse.result = "object"
    /\ event.data.appleResponse.lri \in {"array", "absent"}

\* The entries of that payload.
Listed == IF event.data.appleResponse.lri = "array"
          THEN event.data.appleResponse.entries ELSE <<>>

\* C4: a verified receipt with no entry that both carries the product of the
\* requested model and expires strictly after the current time (an entry
\* expiring exactly now is expired, the other tier's entry does not count) is
\* answered 403 NoActiveSubscription; the completion service is not called and
\* the usage store is unchanged.
C4_NoActiveSubscription ==
    [][\A r \in Req :
        (Verified(r) /\ Entitling(Listed, model[r], event.data.nowMs) = {})
        => /\ res'[r].status = 403
           /\ res'[r].error = "No active subscription for requested model."
           /\ pc'[r] = "done"
           /\ completionCalls'[r] = 0
           /\ ~created'[r] /\ incs'[r] = 0
           /\ usageTracker' = usageTracker
      ]_vars

\* C4 witness: a verified receipt was refused for lack of an active subscription.
C4_Witness ==
    /\ res[1].status = 403
    /\ res[1].error = "No active subscription for requested model."
    /\ verifierCalls[1] = 1 /\ completionCalls[1] = 0
    /\ usageTracker \in InitStores

\* The entry a reference matcher selects: among the entitling entries the one
\* purchased last, and of those purchased at the same time the one listed first.
Reference(es, m, t) ==
    LET c == Entitling(es, m, t)
        p(i) == Ms(es[i].purchase_date_ms, 0)
    IN  es[CHOOSE i \in c : \A j \in c \ {i} : p(j) < p(i) \/ (p(j) = p(i) /\ i < j)]

\* C5: the matcher selects the entry the reference selects, and that entry's
\* original_transaction_id is the key under which the quota is checked (the
\* request is refused exactly when the count under that key has reached the
\* ceiling) and under which a successful call is counted.
C5_MatcherSelectsReference ==
    [][\A r \in Req :
        /\ (Verified(r) /\ Entitling(Listed, model[r], event.data.nowMs) # {})
           => LET id == Reference(Listed, model[r], event.data.nowMs)
                            .original_transaction_id
              IN  /\ id \in DOMAIN usageTracker'
                  /\ IF usageTracker'[id][model[r]] >= CeilingOf(model[r])
                     THEN /\ res'[r].status = 403
                          /\ res'[r].error = "Monthly quota exceeded for this model."
                     ELSE /\ pc'[r] = "awaitFetch"
                          /\ originalTransactionId'[r] = id
        /\ (Handling(r, "json") /\ res'[r].status = 200)
           => usageTracker'[originalTransactionId[r]][model[r]]
                = usageTracker[originalTransactionId[r]][model[r]] + 1
      ]_vars

\* C5 witness: an entry was selected and its id became the key of the request.
C5_Witness ==
    /\ pc[1] = "awaitFetch"
    /\ originalTransactionId[1] = "T2"
    /\ "T2" \in DOMAIN usageTracker
    /\ completionCalls[1] = 1

\* The verifier returned r a payload with an entitling entry; Key is the
\* subscriber id of the entry the matcher selects.
Entitled(r) == Verified(r) /\ Entitling(Listed, model[r], event.data.nowMs) # {}
Key(r) == Reference(Listed, model[r], event.data.nowMs).original_transaction_id

\* The completion service answered r with a success carrying the given kind of
\* text.
Replied(r) == Handling(r, "json") /\ event.data.result = "resolve"

\* C6: a successful call made when the count of its subscriber and model is
\* one below the ceiling takes the count to the ceiling (with no other request
\* of the pair in flight, that is the count the request was admitted at), and
\* a request of that subscriber and model that reaches the quota check with the
\* count at the ceiling is refused with QuotaExceeded.
C6_LastCallThenRefused ==
    [][\A r \in Req :
        /\ ( /\ Handling(r, "json") /\ res'[r].status = 200
             /\ usageTracker[originalTransactionId[r]][model[r]]
                  = CeilingOf(model[r]) - 1 )
           => usageTracker'[originalTransactionId[r]][model[r]] = CeilingOf(model[r])
        /\ ( /\ Entitled(r)
             /\ Key(r) \in DOMAIN usageTracker
             /\ usageTracker[Key(r)][model[r]] = CeilingOf(model[r]) )
           => /\ res'[r].status = 403
              /\ res'[r].error = "Monthly quota exceeded for this model."
      ]_vars

\* C6 witness: T1 started one below both ceilings; one request succeeded and
\* took one of its counts to the ceiling, and the next one was refused.
C6_Witness ==
    \E r1, r2 \in Req :
        /\ res[r1].status = 200 /\ incs[r1] = 1
        /\ res[r2].error = "Monthly quota exceeded for this model."
        /\ "T1" \in DOMAIN usageTracker
        /\ \E m, k \in SupportedModels :
              /\ m # k
              /\ usageTracker["T1"][m] = CeilingOf(m)
              /\ usageTracker["T1"][k] = CeilingOf(k) - 1

\* C7: a request with an entitling entry that reaches the quota check while
\* the count of its subscriber and model is at or above the ceiling (800 for
\* gpt-4, 5000 for gpt-3.5-turbo) is answered 403 QuotaExceeded; the completion
\* service is not called for it and the count does not change.
C7_QuotaEnforcedBeforeCall ==
    [][\A r \in Req :
        ( /\ Entitled(r)
          /\ Key(r) \in DOMAIN usageTracker
          /\ usageTracker[Key(r)][model[r]] >= CeilingOf(model[r]) )
        => /\ res'[r].status = 403
           /\ res'[r].error = "Monthly quota exceeded for this model."
           /\ pc'[r] = "done"
           /\ completionCalls'[r] = 0
           /\ incs'[r] = 0
           /\ usageTracker' = usageTracker
      ]_vars

\* C7 witness: T1 has made 800 premium calls and a further request was refused
\* before any call of the completion service.
C7_Witness ==
    \E r \in Req :
        /\ res[r].status = 403
        /\ res[r].error = "Monthly quota exceeded for this model."
        /\ completionCalls[r] = 0
        /\ "T1" \in DOMAIN usageTracker
        /\ usageTracker["T1"]["gpt-4"] = 800

\* C8: when the completion service answers with a non-success status, or with
\* a success whose first choice has no text or a text that is empty (or blank),
\* the request is answered 500, has incremented no count, and the step that
\* answers it leaves the usage store as it was.
C8_FailedCallNotCounted ==
    [][\A r \in Req :
        ( \/ Handling(r, "text")
          \/ /\ Replied(r)
             /\ \/ event.data.content.type = "undefined"
                \/ /\ event.data.content.type = "string"
                   /\ ~NonBlank(event.data.content) )
        => /\ res'[r].status = 500
           /\ pc'[r] = "done"
           /\ incs'[r] = 0
           /\ usageTracker' = usageTracker
      ]_vars

\* C8 witness: an upstream non-success status was answered 500 and not counted.
C8_Witness ==
    \E r \in Req :
        /\ res[r].status = 500
        /\ res[r].error = "Error communicating with OpenAI."
        /\ completionCalls[r] = 1
        /\ incs[r] = 0

\* t is s without the white space at its ends.
IsTrimOf(t, s) ==
    \E i, j \in 1 .. Len(s) :
        /\ i <= j /\ s[i] # " " /\ s[j] # " "
        /\ \A k \in 1 .. Len(s) : (k < i \/ k > j) => s[k] = " "
        /\ t = SubSeq(s, i, j)

\* C9: a request whose upstream call returns a success with a non-blank text
\* is answered 200 with the trimmed text and increments the count of its own
\* (originalTransactionId, model) pair by exactly 1; every other count, of the
\* same subscriber or of another, and the set of records stay as they were.
C9_SuccessCountsOwnPairOnce ==
    [][\A r \in Req :
        (Replied(r) /\ NonBlank(event.data.content))
        => /\ res'[r].status = 200
           /\ IsTrimOf(res'[r].reply, event.data.content.val)
           /\ pc'[r] = "done"
           /\ incs'[r] = 1
           /\ DOMAIN usageTracker' = DOMAIN usageTracker
           /\ \A id \in DOMAIN usageTracker, m \in SupportedModels :
                usageTracker'[id][m] =
                    IF id = originalTransactionId[r] /\ m = model[r]
                    THEN usageTracker[id][m] + 1
                    ELSE usageTracker[id][m]
      ]_vars

\* C9 witness: a request of a new subscriber got its reply, trimmed, and its
\* count stands at 1 beside the untouched record of T1.
C9_Witness ==
    \E r \in Req :
        /\ res[r].status = 200
        /\ res[r].reply = <<"a">>
        /\ incs[r] = 1
        /\ DOMAIN usageTracker = {"T1", "T2"}
        /\ usageTracker["T2"]["gpt-3.5-turbo"] = 1
        /\ usageTracker["T2"]["gpt-4"] = 0
        /\ usageTracker["T1"] \in {s[id] : s \in InitStores \ {NoUsage}, id \in {"T1"}}

\* C10 as stated: a request that ends with a non-200 response has incremented
\* no counter and has added no Usage Record.
C10_StoreIdentical ==
    \A r \in Req :
        res[r].status \notin {0, 200} => (incs[r] = 0 /\ ~created[r])

\* C10 as amended: a request that ends with a non-200 response has incremented
\* no counter; the one trace it can leave is the Usage Record that the quota
\* check adds, with zero counts, for a subscriber that had none, and only a
\* request answered 500 after its upstream call leaves it.  No step removes a
\* record.
C10_NoCountCommitted ==
    [][/\ \A r \in Req :
            res'[r].status \notin {0, 200}
            => /\ incs'[r] = 0
               /\ created'[r] => (res'[r].status = 500 /\ completionCalls'[r] = 1)
       /\ DOMAIN usageTracker \subseteq DOMAIN usageTracker'
       /\ \A id \in DOMAIN usageTracker' \ DOMAIN usageTracker :
            \A m \in SupportedModels : usageTracker'[id][m] = 0
      ]_vars

\* C10 witness: a request answered 500 left the zero record it had created.
C10_Witness ==
    \E r \in Req :
        /\ res[r].status = 500
        /\ created[r]
        /\ incs[r] = 0
        /\ \E id \in DOMAIN usageTracker :
              \A m \in SupportedModels : usageTracker[id][m] = 0

\* C11: no step (of a request that succeeds or fails, or of GET /) removes a
\* Usage Record or lowers one of its counts; so a count that has reached the
\* ceiling stays at or above it.
C11_CountsNeverDecrease ==
    [][\A id \in DOMAIN usageTracker :
          /\ id \in DOMAIN usageTracker'
          /\ \A m \in SupportedModels :
                /\ usageTracker'[id][m] >= usageTracker[id][m]
                /\ usageTracker[id][m] >= CeilingOf(m)
                   => usageTracker'[id][m] >= CeilingOf(m)
      ]_vars

\* C11 witness: GET / is being served after one request took a count of T1 to
\* its ceiling and another request failed.
C11_Witness ==
    /\ event.kind = "health"
    /\ \E r1, r2 \in Req :
          /\ res[r1].status = 200 /\ incs[r1] = 1
          /\ res[r2].status \in {400, 403, 500}
    /\ "T1" \in DOMAIN usageTracker
    /\ \E m \in SupportedModels : usageTracker["T1"][m] = CeilingOf(m)

\* The count the store holds for a subscriber and a model; none reads as 0.
CountOf(id, m) == IF id \in DOMAIN usageTracker THEN usageTracker[id][m] ELSE 0

\* C12: under every interleaving the count of each (originalTransactionId,
\* model) equals the number of requests of that pair answered 200 since the
\* process started: no successful call is counted twice and none is lost.  It
\* holds in every state, and so once all requests in flight have finished.
C12_CountIsNumberOf200s ==
    \A id \in Ids, m \in SupportedModels : CountOf(id, m) = answered[id][m]

\* C12 witness: two requests of a new subscriber and one model overlapped
\* between check and increment, both were answered 200 and the count is 2.
C12_Witness ==
    /\ \A r \in Req : pc[r] = "done"
    /\ \E r1, r2 \in Req : r1 # r2 /\ res[r1].status = 200 /\ res[r2].status = 200
    /\ \E id \in Ids, m \in SupportedModels :
          /\ peak[id][m] = 2
          /\ CountOf(id, m) = 2
          /\ answered[id][m] = 2

\* C13: two requests that are refused access, for whichever of the three
\* reasons (receipt not verified, no active subscription, quota exceeded),
\* receive the same response: status 403 and the same error body.
C13_AccessDeniedIndistinguishable ==
    \A r1, r2 \in Req :
        (res[r1].status = 403 /\ res[r2].status = 403) => res[r1] = res[r2]

\* The error bodies that name a fault of the completion service.
UpstreamKinds ==
    {"Error communicating with OpenAI.", "Malformed response from OpenAI.",
     "Error communicating with OpenAI"}

\* The completion-service call of r has just failed: its transport failed, it
\* answered with a non-success status, or its body could not be read.
CompletionFailed(r) ==
    \/ Handling(r, "fetch") /\ event.data = "reject"
    \/ Handling(r, "text")
    \/ Handling(r, "json") /\ event.data.result = "reject"
    \/ Handling(r, "post") /\ event.data.result # "resolve"

\* C14: a failure of the verifier call is answered 403 as a failed receipt
\* verification; every failure of the completion-service call (transport
\* error, non-success status, unreadable body) is answered 500 with an error
\* that names the upstream fault (UpstreamError or UpstreamMalformedResponse);
\* and every request is answered once, with a status of 200, 400, 403 or 500.
C14_DependencyFailuresMapped ==
    [][\A r \in Req :
        /\ (Handling(r, "verify") /\ event.data.appleResponse.result = "throw")
           => (res'[r].status = 403 /\ res'[r].error = "Failed to verify receipt.")
        /\ CompletionFailed(r)
           => (res'[r].status = 500 /\ res'[r].error \in UpstreamKinds)
        /\ res[r].status # 0 => res'[r] = res[r]
        /\ res'[r].status \in {0, 200, 400, 403, 500}
        /\ pc'[r] = "done" <=> res'[r].status # 0
      ]_vars

\* C15: per request the receipt verifier is called at most once and the
\* completion service at most once; the verifier is called only for a request
\* that passed validation, and the completion service only when the verifier
\* has been called and has returned an entry that entitles to the model and
\* the count of that entry's subscriber is below the ceiling.
C15_LinearSingleAttempt ==
    [][\A r \in Req :
        /\ verifierCalls'[r] <= 1
        /\ completionCalls'[r] <= 1
        /\ verifierCalls'[r] > verifierCalls[r]
           => /\ Handling(r, "request")
              /\ NonBlank(event.data.receipt)
              /\ NonBlank(event.data.prompt)
              /\ event.data.model.val \in {"gpt-3.5-turbo", "gpt-4"}
        /\ completionCalls'[r] > completionCalls[r]
           => /\ verifierCalls[r] = 1
              /\ Entitled(r)
              /\ CountOf(Key(r), model[r]) < CeilingOf(model[r])
      ]_vars

\* The verifier returned r a well-formed payload in which, among the entries
\* of the requested model's product, the one purchased last (later than every
\* other) has expired.
LatestExpired(r) ==
    /\ Verified(r)
    /\ LET es == Listed
           c == {i \in 1 .. Len(es) : es[i].product_id = ProductOf(model[r])}
       IN  \E i \in c :
              /\ \A j \in c \ {i} :
                    Ms(es[j].purchase_date_ms, 0) < Ms(es[i].purchase_date_ms, 0)
              /\ Ms(es[i].expires_date_ms, 0) <= event.data.nowMs

\* C16 as stated: when the entry of the product that was purchased last has
\* expired, the request is refused with NoActiveSubscription, also when an
\* entry of the product that was purchased earlier has not expired.
C16_LatestEntryAuthoritative ==
    [][\A r \in Req :
        LatestExpired(r)
        => /\ res'[r].status = 403
           /\ res'[r].error = "No active subscription for requested model."
      ]_vars

\* C16 as amended: an expired entry decides nothing.  When the entry of the
\* product that was purchased last has expired, the request is refused with
\* NoActiveSubscription only if every other entry of the product has expired
\* too; otherwise it goes on to the quota check under the subscriber of the
\* most recently purchased unexpired entry.
C16_ExpiredLatestIsSkipped ==
    [][\A r \in Req :
        LatestExpired(r)
        => IF Entitling(Listed, model[r], event.data.nowMs) = {}
           THEN /\ res'[r].status = 403
                /\ res'[r].error = "No active subscription for requested model."
           ELSE /\ res'[r].error # "No active subscription for requested model."
                /\ Key(r) \in DOMAIN usageTracker'
                /\ \/ /\ pc'[r] = "awaitFetch"
                      /\ originalTransactionId'[r] = Key(r)
                      /\ completionCalls'[r] = 1
                   \/ /\ res'[r].error = "Monthly quota exceeded for this model."
                      /\ usageTracker[Key(r)][model[r]] >= CeilingOf(model[r])
      ]_vars

\* C16 witness: the verifier has returned a list whose last purchased entry
\* of the product has expired and whose earlier one has not, and the handler,
\* about to run on it, forwards the request to the completion service.
C16_Witness ==
    /\ LatestExpired(1)
    /\ Entitling(Listed, model[1], event.data.nowMs) # {}
    /\ ENABLED (AfterVerify(1) /\ pc'[1] = "awaitFetch")

\* C17: no request performs its quota check while another request of the same
\* subscriber and model is between its own quota check and its increment; so
\* the check and increment of one are never interleaved with the other's.
C17_CheckIncrementAtomic ==
    [][\A r \in Req :
        Entitled(r) => ~ \E q \in Req \ {r} : InFlight(q, Key(r), model[r])
      ]_vars

\* C18: the check-then-later-write admits the race.  A request that reaches
\* the quota check while the count is one below the ceiling passes it, whether
\* or not another request of the pair that passed it at the same count is
\* still in flight; and a request whose successful reply arrives when the
\* count has meanwhile reached the ceiling is answered 200 all the same and
\* takes the count to one above the ceiling.  The witness is the execution.
C18_RaceAdmitsOvershoot ==
    [][\A r \in Req :
        /\ (Entitled(r) /\ CountOf(Key(r), model[r]) = CeilingOf(model[r]) - 1)
           => /\ pc'[r] = "awaitFetch"
              /\ usageTracker'[Key(r)][model[r]] = CeilingOf(model[r]) - 1
        /\ ( /\ Replied(r) /\ NonBlank(event.data.content)
             /\ usageTracker[originalTransactionId[r]][model[r]] = CeilingOf(model[r]) )
           => /\ res'[r].status = 200
              /\ usageTracker'[originalTransactionId[r]][model[r]]
                   = CeilingOf(model[r]) + 1
      ]_vars

\* C18 witness: T1 started one below the ceiling; two requests of T1 for one
\* model were in flight together, both were answered 200, each incremented
\* once, and the count stands one above the ceiling.
C18_Witness ==
    \E r1, r2 \in Req, m \in SupportedModels :
        /\ r1 # r2
        /\ res[r1].status = 200 /\ incs[r1] = 1
        /\ res[r2].status = 200 /\ incs[r2] = 1
        /\ peak["T1"][m] >= 2
        /\ usageTracker["T1"][m] = CeilingOf(m) + 1

\* C20: the count of a subscriber and model never exceeds the ceiling by more
\* than k - 1, k being the largest number of requests of the pair that were
\* ever at once between quota check and increment; with no overlap (k = 1)
\* the count never exceeds the ceiling.
C20_OvershootBounded ==
    \A id \in Ids, m \in SupportedModels :
        /\ CountOf(id, m) <= CeilingOf(m) + peak[id][m] - 1
        /\ peak[id][m] <= 1 => CountOf(id, m) <= CeilingOf(m)

\* C20 witness: the bound is reached: a pair of which two requests overlapped
\* stands at one above its ceiling.
C20_Witness ==
    \E id \in Ids, m \in SupportedModels :
        /\ peak[id][m] = 2
        /\ CountOf(id, m) = CeilingOf(m) + peak[id][m] - 1
        /\ \A r \in Req : ~ InFlight(r, id, m)

\* Request r is suspended in an external call.
Suspended(r) == pc[r] \in {"awaitVerify", "awaitFetch", "awaitText", "awaitJson"}

\* What request r needs next can happen: its arrival or the completion of its
\* external call when the loop is idle, its callback when its completion is
\* being dispatched.
CanProceed(r) ==
    /\ (event.kind = "none" /\ pc[r] = "idle") => ENABLED Arrive(r, 1)
    /\ (event.kind = "none" /\ Suspended(r)) => ENABLED Settles(r)
    /\ (event.kind # "none" /\ event.req = r) => ENABLED Handle(r)

\* C19: if every external call eventually completes or fails, every POST /chat
\* request that arrives is eventually answered; and while a request is
\* suspended in an external call, every other request can proceed: the
\* suspended request holds nothing the other one waits for.
C19_EveryRequestAnswered ==
    /\ \A r \in Req : Handling(r, "request") ~> (pc[r] = "done" /\ res[r].status # 0)
    /\ [](\A q \in Req : Suspended(q) => \A r \in Req \ {q} : CanProceed(r))

\* C19 witness: a request that arrived while another was suspended in its
\* call of the completion service has been answered, and the other is
\* suspended still.
C19_Witness ==
    \E q, r \in Req :
        /\ q # r
        /\ pc[q] = "awaitFetch"
        /\ pc[r] = "done" /\ res[r].status = 200
        /\ peak["T2"]["gpt-4"] = 2

====
